---- MODULE Spec2Model ----
(***************************************************************************)
(* World Bank data MCP server (src/server.py): three resources over a      *)
(* local CSV file and three tools over two upstream HTTP APIs.             *)
(*                                                                         *)
(* Values are modelled structurally:                                       *)
(*   - a Python dict / JSON object is a TLA+ record, an absent key is an   *)
(*     absent field;                                                       *)
(*   - a Python list / JSON array is a sequence;                           *)
(*   - an f-string is a record [fmt, args]: the template text with {} for  *)
(*     each interpolated expression, and the interpolated values;          *)
(*   - JSON null / Python None is the value Null;                          *)
(*   - a raised exception is a record [cls, msg] (and status_code for an   *)
(*     httpx.HTTPStatusError); str(e) is e.msg;                            *)
(*   - the outcome of a call is [raised |-> FALSE, value |-> v] or         *)
(*     [raised |-> TRUE, exc |-> e].                                       *)
(***************************************************************************)
EXTENDS Integers, Sequences, FiniteSets, TLC

(***************************************************************************)
(* The server keeps no state between invocations (no cache, no session):   *)
(* what an invocation depends on is its arguments and what it reads from   *)
(* its environment, the data file or the upstream's answer.  The state is  *)
(* the invocation that completed last, with what it was given, what it     *)
(* read and what it returned, and the frame of a compare_countries         *)
(* invocation that is still running.                                       *)
(***************************************************************************)
VARIABLES
    call,   \* the invocation that completed last: op, arguments, what it read, outcome
    cmp     \* the compare_countries invocation in progress (its frame), or idle

vars == <<call, cmp>>

(***************************************************************************)
(* Bounds of the model.                                                    *)
(***************************************************************************)
MaxRows == 2        \* rows of the data file
MaxRecords == 2     \* records of one upstream indicator response
MaxCodes == 2       \* country codes of one compare_countries call

Null == "null"

(* All sequences over S of length at most n. *)
SeqUpTo(S, n) == UNION {[1..k -> S] : k \in 0..n}

(* All orderings of the finite set S, as sequences without repetition. *)
Orderings(S) ==
    {s \in [1..Cardinality(S) -> S] : \A i, j \in 1..Cardinality(S) : s[i] = s[j] => i = j}

(* A string literal, in the shape of an f-string without interpolations. *)
Text(t) == [fmt |-> t, args |-> <<>>]

Return(v) == [raised |-> FALSE, value |-> v]
Raise(e) == [raised |-> TRUE, exc |-> e]

(***************************************************************************)
(* Exception classes the handlers name in except clauses, and the classes  *)
(* the calls they guard raise, each with its ancestors (itself included).  *)
(***************************************************************************)
Ancestors ==
    [c \in {"HTTPStatusError", "ConnectTimeout", "ReadTimeout", "ConnectError",
            "JSONDecodeError", "KeyError", "IndexError", "FileNotFoundError",
            "PermissionError", "ColumnNotFoundError", "RuntimeError"} |->
        CASE c = "HTTPStatusError" -> {"HTTPStatusError", "HTTPError", "Exception"}
          [] c = "ConnectTimeout" ->
                {"ConnectTimeout", "TimeoutException", "TransportError", "RequestError",
                 "HTTPError", "Exception"}
          [] c = "ReadTimeout" ->
                {"ReadTimeout", "TimeoutException", "TransportError", "RequestError",
                 "HTTPError", "Exception"}
          [] c = "ConnectError" ->
                {"ConnectError", "TransportError", "RequestError", "HTTPError", "Exception"}
          [] c = "JSONDecodeError" -> {"JSONDecodeError", "ValueError", "Exception"}
          [] c = "KeyError" -> {"KeyError", "LookupError", "Exception"}
          [] c = "IndexError" -> {"IndexError", "LookupError", "Exception"}
          [] c = "FileNotFoundError" -> {"FileNotFoundError", "OSError", "Exception"}
          [] c = "PermissionError" -> {"PermissionError", "OSError", "Exception"}
          [] c = "ColumnNotFoundError" -> {"ColumnNotFoundError", "PolarsError", "Exception"}
          [] c = "RuntimeError" -> {"RuntimeError", "Exception"}]

(* `except cls` matches e. *)
IsInstance(e, cls) == cls \in Ancestors[e.cls]

(***************************************************************************)
(* The local store.  A country code is a sequence of characters, so that   *)
(* str.upper() is computed character by character.                         *)
(***************************************************************************)
UpperChar ==
    [ch \in {"U", "S", "C", "N", "F", "R", "u", "s", "c", "n"} |->
        CASE ch = "u" -> "U"
          [] ch = "s" -> "S"
          [] ch = "c" -> "C"
          [] ch = "n" -> "N"
          [] OTHER -> ch]

(* upper with the conversion left out. *)
upperIdentity(s) == s

upper(s) == [i \in 1..Len(s) |-> UpperChar[s[i]]]

CodeColumn == "countryiso3code"
NameColumn == "country"

(* The rows a data file is built from: two countries, and one row whose    *)
(* code is written in lower case.                                          *)
StoreRows ==
    { [countryiso3code |-> <<"U", "S">>, country |-> "United States"],
      [countryiso3code |-> <<"C", "N">>, country |-> "China"],
      [countryiso3code |-> <<"u", "s">>, country |-> "United States"] }

StoreColumns == << [name |-> CodeColumn, dtype |-> "String"],
                   [name |-> NameColumn, dtype |-> "String"] >>

(* The states of the file: absent, present but not readable as CSV,        *)
(* a CSV without the two country columns, a CSV of up to MaxRows rows.     *)
Files ==
    { [exists |-> FALSE, readable |-> FALSE, columns |-> <<>>, rows |-> <<>>],
      [exists |-> TRUE, readable |-> FALSE, columns |-> <<>>, rows |-> <<>>],
      [exists |-> TRUE, readable |-> TRUE,
       columns |-> << [name |-> "year", dtype |-> "Int64"] >>, rows |-> <<>>] }
    \cup { [exists |-> TRUE, readable |-> TRUE, columns |-> StoreColumns, rows |-> r] :
             r \in SeqUpTo(StoreRows, MaxRows) }

DataFilePath == "data/world_bank_indicators.csv"

_load_data(f) ==
    IF ~f.exists
    THEN Raise([cls |-> "FileNotFoundError",
                msg |-> [fmt |-> "Data file not found: {}", args |-> <<DataFilePath>>]])
    ELSE IF ~f.readable
    THEN Raise([cls |-> "PermissionError", msg |-> Text("Permission denied")])
    ELSE Return([columns |-> f.columns, rows |-> f.rows])

ColumnNames(df) == {df.columns[i].name : i \in DOMAIN df.columns}

(* df.select(cols): the frame must hold every column asked for. *)
Select(df, cols) ==
    IF cols \subseteq ColumnNames(df)
    THEN Return([columns |-> df.columns, rows |-> df.rows])
    ELSE Raise([cls |-> "ColumnNotFoundError", msg |-> Text("column not found")])

(* df.unique() with maintain_order left at its default (False): the        *)
(* distinct rows, in an order the library does not fix.                    *)
Unique(rows) == Orderings({rows[i] : i \in DOMAIN rows})

(* df.filter(pl.col(col) == v): the matching rows, in file order. *)
Filter(df, col, v) ==
    IF col \in ColumnNames(df)
    THEN Return(SelectSeq(df.rows, LAMBDA r : r[col] = v))
    ELSE Raise([cls |-> "ColumnNotFoundError", msg |-> Text("column not found")])

JsonArray(items) == [json |-> "array", body |-> items]
JsonObject(obj) == [json |-> "object", body |-> obj]

(* get_schema: no try block, so what _load_data raises leaves the handler. *)
get_schema(f) ==
    LET df == _load_data(f)
    IN  IF df.raised THEN df
        ELSE Return(JsonObject(df.value.columns))

(* get_countries without its `except Exception` clause. *)
get_countriesFileNotFoundOnly(f, order) ==
    LET df == _load_data(f)
    IN  IF df.raised
        THEN IF IsInstance(df.exc, "FileNotFoundError")
             THEN Return(JsonObject([error |-> df.exc.msg]))
             ELSE df
        ELSE LET sel == Select(df.value, {CodeColumn, NameColumn})
             IN  IF sel.raised THEN sel ELSE Return(JsonArray(order))

(* get_countries, for one order `order` of the unique rows. *)
get_countries(f, order) ==
    LET df == _load_data(f)
    IN  IF df.raised
        THEN IF IsInstance(df.exc, "FileNotFoundError")
             THEN Return(JsonObject([error |-> df.exc.msg]))
             ELSE Return(JsonObject([error |->
                    [fmt |-> "Failed to load countries: {}", args |-> <<df.exc.msg>>]]))
        ELSE LET sel == Select(df.value, {CodeColumn, NameColumn})
             IN  IF sel.raised
                 THEN Return(JsonObject([error |->
                        [fmt |-> "Failed to load countries: {}", args |-> <<sel.exc.msg>>]]))
                 ELSE Return(JsonArray(order))

(* The orders get_countries may see from unique() on file f. *)
CountryOrders(f) ==
    LET df == _load_data(f)
    IN  IF df.raised THEN {<<>>} ELSE Unique(df.value.rows)

get_country_indicators(f, country_code) ==
    LET df == _load_data(f)
    IN  IF df.raised
        THEN IF IsInstance(df.exc, "FileNotFoundError")
             THEN Return(JsonObject([error |-> df.exc.msg]))
             ELSE Return(JsonObject([error |->
                    [fmt |-> "Failed to fetch indicators: {}", args |-> <<df.exc.msg>>]]))
        ELSE LET filtered == Filter(df.value, CodeColumn, upper(country_code))
             IN  IF filtered.raised
                 THEN Return(JsonObject([error |->
                        [fmt |-> "Failed to fetch indicators: {}",
                         args |-> <<filtered.exc.msg>>]]))
                 ELSE IF filtered.value = <<>>
                 THEN Return(JsonObject([error |->
                        [fmt |-> "Country code '{}' not found in local dataset",
                         args |-> <<country_code>>]]))
                 ELSE Return(JsonArray(filtered.value))

(* The codes a caller asks the indicators resource for. *)
RequestCodes ==
    { <<"U", "S">>, <<"u", "s">>, <<"U", "s">>, <<"C", "N">>, <<"c", "n">>, <<"F", "R">> }

(***************************************************************************)
(* The upstream HTTP APIs.  What client.get(...) does is an input: it      *)
(* raises a transport exception, or returns a response with a status and a *)
(* body.                                                                   *)
(***************************************************************************)
TransportFaults ==
    { [cls |-> "ConnectTimeout", msg |-> Text("timed out")],
      [cls |-> "ReadTimeout", msg |-> Text("The read operation timed out")],
      [cls |-> "ConnectError", msg |-> Text("[Errno 111] Connection refused")] }

NotJson == [t |-> "text"]
JNull == [t |-> "null"]
JArray(items) == [t |-> "array", items |-> items]
JMeta == [t |-> "object"]

Fault(e) == [kind |-> "fault", exc |-> e]
Response(status, body) == [kind |-> "response", status_code |-> status, body |-> body]

(* response.raise_for_status() *)
raise_for_status(r) ==
    IF r.status_code = 200 THEN Return(r)
    ELSE Raise([cls |-> "HTTPStatusError", status_code |-> r.status_code,
                msg |-> [fmt |-> "HTTP error '{}' for url", args |-> <<ToString(r.status_code)>>]])

(* response.json() *)
json(r) ==
    IF r.body.t = "text"
    THEN Raise([cls |-> "JSONDecodeError", msg |-> Text("Expecting value: line 1 column 1 (char 0)")])
    ELSE Return(r.body)

EmptyDict == <<>>

(* d.get(k, default) *)
Get(d, k, default) == IF k \in DOMAIN d THEN d[k] ELSE default

(* list(d.keys()), list(d.values()) of a dict held as a sequence of <<key, value>> *)
Keys(d) == [i \in DOMAIN d |-> d[i][1]]
Values(d) == [i \in DOMAIN d |-> d[i][2]]

(***************************************************************************)
(* REST Countries.                                                         *)
(***************************************************************************)
CountryObjects ==
    { [name |-> [common |-> "United States"], capital |-> <<"Washington, D.C.">>,
       region |-> "Americas", subregion |-> "North America",
       languages |-> << <<"eng", "English">> >>,
       currencies |-> << <<"USD", "United States dollar">> >>,
       population |-> 331, flag |-> "flag-US"],
      [name |-> [common |-> "Antarctica"]],
      [name |-> [common |-> "Bouvet Island"], capital |-> <<>>],
      [region |-> "Americas"] }

CountriesUpstream ==
    {Fault(e) : e \in TransportFaults}
    \cup {Response(404, NotJson), Response(500, NotJson), Response(200, NotJson),
          Response(200, JArray(<<>>))}
    \cup {Response(200, JArray(<<c>>)) : c \in CountryObjects}

ToolCodes == {"USA", "XYZ"}

_fetch_rest_countries(country_code, up) ==
    IF up.kind = "fault" THEN Raise(up.exc)
    ELSE LET ok == raise_for_status(up)
         IN  IF ok.raised THEN ok
             ELSE LET data == json(up)
                  IN  IF data.raised THEN data
                      ELSE IF data.value.items = <<>>
                      THEN Raise([cls |-> "IndexError", msg |-> Text("list index out of range")])
                      ELSE Return(data.value.items[1])

(* The dict get_country_info builds from the first match. *)
CountryInfo(data) ==
    IF "name" \notin DOMAIN data
    THEN Raise([cls |-> "KeyError", msg |-> Text("'name'")])
    ELSE IF Get(data, "capital", <<"N/A">>) = <<>>
    THEN Raise([cls |-> "IndexError", msg |-> Text("list index out of range")])
    ELSE Return([name |-> data.name.common,
                 capital |-> Get(data, "capital", <<"N/A">>)[1],
                 region |-> Get(data, "region", "N/A"),
                 subregion |-> Get(data, "subregion", "N/A"),
                 languages |-> Values(Get(data, "languages", EmptyDict)),
                 currencies |-> Keys(Get(data, "currencies", EmptyDict)),
                 population |-> Get(data, "population", 0),
                 flag |-> Get(data, "flag", "")])

(* The except clauses of get_country_info, in the order written. *)
CountryInfoExcept(e, country_code) ==
    IF IsInstance(e, "HTTPStatusError")
    THEN IF e.status_code = 404
         THEN Return([error |-> [fmt |-> "Country code '{}' not found",
                                 args |-> <<country_code>>]])
         ELSE Return([error |-> [fmt |-> "API error ({}): {}",
                                 args |-> <<ToString(e.status_code), e.msg>>]])
    ELSE IF IsInstance(e, "TimeoutException")
    THEN Return([error |-> Text("Request timed out, please try again")])
    ELSE IF IsInstance(e, "RequestError")
    THEN Return([error |-> [fmt |-> "Network error: {}", args |-> <<e.msg>>]])
    ELSE IF IsInstance(e, "Exception")
    THEN Return([error |-> [fmt |-> "Unexpected error: {}", args |-> <<e.msg>>]])
    ELSE Raise(e)

get_country_info(country_code, up) ==
    LET data == _fetch_rest_countries(country_code, up)
        info == IF data.raised THEN data ELSE CountryInfo(data.value)
    IN  IF info.raised THEN CountryInfoExcept(info.exc, country_code) ELSE info

(***************************************************************************)
(* World Bank indicator API.                                               *)
(***************************************************************************)
Indicators == {"NY.GDP.PCAP.CD", "SP.POP.TOTL"}
Years == {0, 2022}
Dates == {"2021", "2022"}
JsonNumbers == {"76329.58"}

(* The records of an upstream response: complete ones, one with only a     *)
(* date, one without a date.                                               *)
IndicatorRecords ==
    { [date |-> d, value |-> v, country |-> [value |-> "United States"],
       indicator |-> [value |-> "GDP per capita (current US$)"]] :
         d \in Dates, v \in JsonNumbers \cup {Null} }
    \cup { [date |-> "2022"], [value |-> Null] }

IndicatorUpstream ==
    {Fault(e) : e \in TransportFaults}
    \cup {Response(404, NotJson), Response(500, NotJson), Response(200, NotJson),
          Response(200, JArray(<<JMeta>>)), Response(200, JArray(<<JMeta, JNull>>))}
    \cup {Response(200, JArray(<<JMeta, JArray(r)>>)) :
             r \in SeqUpTo(IndicatorRecords, MaxRecords)}

(* str(year) *)
str(year) == ToString(year)

(* The request _fetch_world_bank_indicator sends. *)
IndicatorRequest(country_code, indicator, year) ==
    [url |-> [fmt |-> "https://api.worldbank.org/v2/country/{}/indicator/{}",
              args |-> <<country_code, indicator>>],
     params |-> IF year # 0
                THEN [format |-> "json", per_page |-> 100, date |-> str(year)]
                ELSE [format |-> "json", per_page |-> 100]]

(* `not x` for a JSON value *)
Falsy(j) == j.t = "null" \/ (j.t = "array" /\ j.items = <<>>)

_fetch_world_bank_indicator(country_code, indicator, year, up) ==
    IF up.kind = "fault" THEN Raise(up.exc)
    ELSE LET ok == raise_for_status(up)
         IN  IF ok.raised THEN ok
             ELSE LET data == json(up)
                  IN  IF data.raised THEN data
                      ELSE IF Len(data.value.items) < 2 \/ Falsy(data.value.items[2])
                      THEN Return(<<>>)
                      ELSE Return(data.value.items[2].items)

(* FirstMatch without the comparison of the date: the first record. *)
FirstMatchAny(records, year, i) == IF i > Len(records) THEN 0 ELSE i

(* FirstMatch scanning from the end: the last record of the year. *)
FirstMatchLast(records, year, i) ==
    LET hits == {k \in i..Len(records) : Get(records[k], "date", Null) = str(year)}
    IN  IF hits = {} THEN 0 ELSE CHOOSE k \in hits : \A j \in hits : j <= k

(* The index of the first record whose date is str(year); 0 if there is none. *)
RECURSIVE FirstMatch(_, _, _)
FirstMatch(records, year, i) ==
    IF i > Len(records) THEN 0
    ELSE IF Get(records[i], "date", Null) = str(year) THEN i
    ELSE FirstMatch(records, year, i + 1)

(* get_live_indicator's except clauses with RequestError tried before      *)
(* TimeoutException.                                                       *)
LiveIndicatorExceptSwapped(e, country_code, indicator) ==
    IF IsInstance(e, "HTTPStatusError")
    THEN IF e.status_code = 404
         THEN Return([error |-> [fmt |-> "Country '{}' or indicator '{}' not found",
                                 args |-> <<country_code, indicator>>]])
         ELSE Return([error |-> [fmt |-> "API error ({}): {}",
                                 args |-> <<ToString(e.status_code), e.msg>>]])
    ELSE IF IsInstance(e, "RequestError")
    THEN Return([error |-> [fmt |-> "Network error: {}", args |-> <<e.msg>>]])
    ELSE IF IsInstance(e, "TimeoutException")
    THEN Return([error |-> Text("Request timed out, please try again")])
    ELSE Return([error |-> [fmt |-> "Unexpected error: {}", args |-> <<e.msg>>]])

(* The except clauses of get_live_indicator, in the order written. *)
LiveIndicatorExcept(e, country_code, indicator) ==
    IF IsInstance(e, "HTTPStatusError")
    THEN IF e.status_code = 404
         THEN Return([error |-> [fmt |-> "Country '{}' or indicator '{}' not found",
                                 args |-> <<country_code, indicator>>]])
         ELSE Return([error |-> [fmt |-> "API error ({}): {}",
                                 args |-> <<ToString(e.status_code), e.msg>>]])
    ELSE IF IsInstance(e, "TimeoutException")
    THEN Return([error |-> Text("Request timed out, please try again")])
    ELSE IF IsInstance(e, "RequestError")
    THEN Return([error |-> [fmt |-> "Network error: {}", args |-> <<e.msg>>]])
    ELSE IF IsInstance(e, "Exception")
    THEN Return([error |-> [fmt |-> "Unexpected error: {}", args |-> <<e.msg>>]])
    ELSE Raise(e)

(* The dict get_live_indicator returns for the matching record. *)
Observation(record, country_code, indicator, year) ==
    [country |-> country_code,
     country_name |-> Get(Get(record, "country", EmptyDict), "value", "N/A"),
     indicator |-> indicator,
     indicator_name |-> Get(Get(record, "indicator", EmptyDict), "value", "N/A"),
     year |-> year,
     value |-> Get(record, "value", Null)]

get_live_indicator(country_code, indicator, year, up) ==
    LET records == _fetch_world_bank_indicator(country_code, indicator, year, up)
    IN  IF records.raised THEN LiveIndicatorExcept(records.exc, country_code, indicator)
        ELSE IF records.value = <<>>
        THEN Return([error |-> [fmt |-> "No data available for {} / {} in {}",
                                args |-> <<country_code, indicator, str(year)>>]])
        ELSE LET m == FirstMatch(records.value, year, 1)
             IN  IF m # 0
                 THEN Return(Observation(records.value[m], country_code, indicator, year))
                 ELSE Return([error |-> [fmt |-> "No data found for {} / {} in {}",
                                         args |-> <<country_code, indicator, str(year)>>]])

(***************************************************************************)
(* compare_countries: the frame of one invocation.  pc is "loop" at the    *)
(* head of the for loop and "wait" while get_live_indicator's request for  *)
(* country_codes[i] is with the upstream; sent is every request sent so    *)
(* far and open the number of them not yet answered.                       *)
(***************************************************************************)
CompareFrame(country_codes, indicator, year) ==
    [pc |-> "loop", country_codes |-> country_codes, indicator |-> indicator,
     year |-> year, i |-> 1, results |-> <<>>,
     sent |-> <<>>, open |-> 0, calls |-> <<>>]

(* What the loop body appends for `code`, given what the call             *)
(* get_live_indicator(code, indicator, year) did: its return value, or the *)
(* entry of the `except Exception` branch (every class of Ancestors is an  *)
(* Exception).                                                             *)
CompareEntry(out, code, indicator, year) ==
    IF ~out.raised THEN out.value
    ELSE [country |-> code, indicator |-> indicator, year |-> year,
          value |-> Null, error |-> out.exc.msg]

(* The loop body appending nothing for a call that returned an error. *)
LoopBodySkipErrors(fr, out) ==
    [fr EXCEPT !.results = IF ~out.raised /\ "error" \in DOMAIN out.value THEN @
                           ELSE Append(@, CompareEntry(out, fr.country_codes[fr.i],
                                                       fr.indicator, fr.year)),
               !.i = @ + 1,
               !.calls = Append(@, [country_code |-> fr.country_codes[fr.i],
                                    indicator |-> fr.indicator, year |-> fr.year,
                                    out |-> out])]

(* The loop body leaving the loop after a call that raised. *)
LoopBodyAbortOnFault(fr, out) ==
    [fr EXCEPT !.results = Append(@, CompareEntry(out, fr.country_codes[fr.i],
                                                  fr.indicator, fr.year)),
               !.i = IF out.raised THEN Len(fr.country_codes) + 1 ELSE @ + 1,
               !.calls = Append(@, [country_code |-> fr.country_codes[fr.i],
                                    indicator |-> fr.indicator, year |-> fr.year,
                                    out |-> out])]

(* One pass of the loop body: the entry is appended and the loop moves on  *)
(* to the next code; calls records what the call was given and what it did. *)
LoopBody(fr, out) ==
    [fr EXCEPT !.results = Append(@, CompareEntry(out, fr.country_codes[fr.i],
                                                  fr.indicator, fr.year)),
               !.i = @ + 1,
               !.calls = Append(@, [country_code |-> fr.country_codes[fr.i],
                                    indicator |-> fr.indicator, year |-> fr.year,
                                    out |-> out])]

(* The faults a call of get_live_indicator is made to raise when its       *)
(* caller is exercised on its own.                                         *)
InjectedFaults == { [cls |-> "RuntimeError", msg |-> Text("injected fault")] }

Idle == [op |-> "none"]
(* The handlers are synchronous: one runs to completion and its result is  *)
(* sent before the next invocation starts.                                 *)
Ready == cmp.pc = "idle" /\ call = Idle

(* Each resource reads the data file as it is when the call is made. *)
ReadSchema ==
    /\ \E f \in Files :
         call' = [op |-> "get_schema", file |-> f, out |-> get_schema(f)]
    /\ UNCHANGED cmp

ReadCountries ==
    /\ \E f \in Files :
         \E order \in CountryOrders(f) :
            call' = [op |-> "get_countries", file |-> f, out |-> get_countries(f, order)]
    /\ UNCHANGED cmp

ReadCountryIndicators ==
    /\ \E f \in Files, code \in RequestCodes :
         call' = [op |-> "get_country_indicators", file |-> f, country_code |-> code,
                  out |-> get_country_indicators(f, code)]
    /\ UNCHANGED cmp

GetSchema == Ready /\ ReadSchema

GetCountries == Ready /\ ReadCountries

GetCountryIndicators == Ready /\ ReadCountryIndicators

GetCountryInfo ==
    /\ Ready
    /\ \E code \in ToolCodes, up \in CountriesUpstream :
         call' = [op |-> "get_country_info", country_code |-> code, up |-> up,
                  out |-> get_country_info(code, up)]
    /\ UNCHANGED cmp

GetLiveIndicator ==
    /\ Ready
    /\ \E code \in ToolCodes, ind \in Indicators, year \in Years, up \in IndicatorUpstream :
         call' = [op |-> "get_live_indicator", country_code |-> code, indicator |-> ind,
                  year |-> year, up |-> up,
                  sent |-> <<IndicatorRequest(code, ind, year)>>,
                  out |-> get_live_indicator(code, ind, year, up)]
    /\ UNCHANGED cmp

(* compare_countries without the check for the empty list. *)
CompareStartNoEmptyCheck ==
    /\ Ready
    /\ \E codes \in SeqUpTo(ToolCodes, MaxCodes), ind \in Indicators, year \in Years :
         /\ call' = Idle
         /\ cmp' = CompareFrame(codes, ind, year)

(* compare_countries is called: the empty list returns at once, any other  *)
(* list enters the loop.                                                   *)
CompareStart ==
    /\ Ready
    /\ \E codes \in SeqUpTo(ToolCodes, MaxCodes), ind \in Indicators, year \in Years :
         IF codes = <<>>
         THEN /\ call' = [op |-> "compare_countries", country_codes |-> codes,
                          indicator |-> ind, year |-> year, sent |-> <<>>,
                          calls |-> <<>>, out |-> Return(<<[error |-> Text("No country codes provided")]>>)]
              /\ cmp' = cmp
         ELSE /\ call' = Idle
              /\ cmp' = CompareFrame(codes, ind, year)

(* get_live_indicator(code, ...) is entered and sends its request. *)
CompareIssue ==
    /\ cmp.pc = "loop"
    /\ cmp.i <= Len(cmp.country_codes)
    /\ cmp' = [cmp EXCEPT !.pc = "wait",
                          !.sent = Append(@, IndicatorRequest(cmp.country_codes[cmp.i],
                                                              cmp.indicator, cmp.year)),
                          !.open = @ + 1]
    /\ UNCHANGED call

(* The loop trying a code again, once, when its call returned an error. *)
CompareReceiveRetry ==
    /\ cmp.pc = "wait"
    /\ \E up \in IndicatorUpstream :
         LET out == get_live_indicator(cmp.country_codes[cmp.i], cmp.indicator, cmp.year, up)
         IN  IF "error" \in DOMAIN out.value /\ Len(cmp.sent) = cmp.i
             THEN cmp' = [cmp EXCEPT !.pc = "loop", !.open = @ - 1]
             ELSE cmp' = [LoopBody(cmp, out) EXCEPT !.pc = "loop", !.open = @ - 1]
    /\ UNCHANGED call

(* The upstream answers (or the request fails) and get_live_indicator      *)
(* returns; the loop body appends what it returned.                        *)
CompareReceive ==
    /\ cmp.pc = "wait"
    /\ \E up \in IndicatorUpstream :
         cmp' = [LoopBody(cmp, get_live_indicator(cmp.country_codes[cmp.i],
                                                  cmp.indicator, cmp.year, up))
                 EXCEPT !.pc = "loop", !.open = @ - 1]
    /\ UNCHANGED call

(* The loop is over: compare_countries returns results. *)
CompareReturn ==
    /\ cmp.pc = "loop"
    /\ cmp.i > Len(cmp.country_codes)
    /\ call' = [op |-> "compare_countries", country_codes |-> cmp.country_codes,
                indicator |-> cmp.indicator, year |-> cmp.year, sent |-> cmp.sent,
                calls |-> cmp.calls, out |-> Return(cmp.results)]
    /\ cmp' = [pc |-> "idle"]

(* The result of the last invocation has been sent to the caller. *)
Deliver ==
    /\ cmp.pc = "idle"
    /\ call # Idle
    /\ call' = Idle
    /\ UNCHANGED cmp

(* The call get_live_indicator(code, ...) raises instead of returning:     *)
(* before it sends its request, or after the request was answered.         *)
CompareFault ==
    /\ \/ cmp.pc = "loop" /\ cmp.i <= Len(cmp.country_codes)
       \/ cmp.pc = "wait"
    /\ \E e \in InjectedFaults :
         cmp' = [LoopBody(cmp, Raise(e))
                 EXCEPT !.pc = "loop", !.open = IF cmp.pc = "wait" THEN @ - 1 ELSE @]
    /\ UNCHANGED call

Init ==
    /\ call = Idle
    /\ cmp = [pc |-> "idle"]

Next ==
    \/ GetSchema
    \/ GetCountries
    \/ GetCountryIndicators
    \/ GetCountryInfo
    \/ GetLiveIndicator
    \/ CompareStart
    \/ CompareIssue
    \/ CompareReceive
    \/ CompareReturn
    \/ Deliver

Spec == Init /\ [][Next]_vars

(* compare_countries exercised with a get_live_indicator that may raise. *)
NextFault ==
    \/ CompareStart
    \/ CompareIssue
    \/ CompareReceive
    \/ CompareReturn
    \/ CompareFault
    \/ Deliver

SpecFault == Init /\ [][NextFault]_vars

(* The resources read again and again, each result kept until the next. *)
NextResources ==
    \/ ReadSchema
    \/ ReadCountries
    \/ ReadCountryIndicators

SpecResources == Init /\ [][NextResources]_vars

(***************************************************************************)
(* The claims.                                                             *)
(***************************************************************************)
IsCompare == call.op = "compare_countries"
IsLive == call.op = "get_live_indicator"
IsErrorPayload(v) == DOMAIN v = {"error"}

(* C1: for a non-empty list of codes, whatever each call of                *)
(* get_live_indicator does (returns a result, returns an Error Payload,    *)
(* raises), compare_countries returns a list as long as the input whose    *)
(* i-th entry is what was produced for the i-th code: the value the i-th   *)
(* call returned, or the fault entry of the i-th code.                     *)
CompareOneEntryPerCode ==
    (IsCompare /\ call.country_codes # <<>>) =>
        /\ ~call.out.raised
        /\ Len(call.out.value) = Len(call.country_codes)
        /\ Len(call.calls) = Len(call.country_codes)
        /\ \A i \in 1..Len(call.country_codes) :
             /\ call.calls[i].country_code = call.country_codes[i]
             /\ IF call.calls[i].out.raised
                THEN /\ "error" \in DOMAIN call.out.value[i]
                     /\ call.out.value[i].country = call.country_codes[i]
                ELSE call.out.value[i] = call.calls[i].out.value

(* C1 witness: the same code twice, the first call raising and the second  *)
(* returning an observation; both entries are kept, in that order.         *)
CompareOneEntryPerCodeWitness ==
    /\ IsCompare
    /\ Len(call.country_codes) = 2
    /\ call.country_codes[1] = call.country_codes[2]
    /\ call.calls[1].out.raised
    /\ ~call.calls[2].out.raised
    /\ "error" \notin DOMAIN call.out.value[2]
    /\ "error" \in DOMAIN call.out.value[1]

(* C2: a call of get_live_indicator that raises yields the entry           *)
(* {country, indicator, year, value: null, error} for its code, and the    *)
(* codes after it are still processed, each with an entry of its own.      *)
CompareFaultIsolated ==
    IsCompare =>
        \A i \in 1..Len(call.calls) :
            call.calls[i].out.raised =>
                /\ Len(call.out.value) = Len(call.country_codes)
                /\ call.out.value[i] =
                      [country |-> call.country_codes[i], indicator |-> call.indicator,
                       year |-> call.year, value |-> Null,
                       error |-> call.calls[i].out.exc.msg]
                /\ \A j \in (i + 1)..Len(call.country_codes) :
                      /\ j <= Len(call.calls)
                      /\ call.calls[j].country_code = call.country_codes[j]

(* C2 witness: the call for the first of two different codes raises and    *)
(* the call for the second returns an Error Payload.                       *)
CompareFaultIsolatedWitness ==
    /\ IsCompare
    /\ Len(call.country_codes) = 2
    /\ call.country_codes[1] # call.country_codes[2]
    /\ call.calls[1].out.raised
    /\ ~call.calls[2].out.raised
    /\ IsErrorPayload(call.out.value[2])

(* C3: compare_countries with the empty list returns exactly               *)
(* [{"error": "No country codes provided"}], for every indicator and year, *)
(* without entering the loop: no call of get_live_indicator, no request.   *)
CompareEmptyRejected ==
    /\ (IsCompare /\ call.country_codes = <<>>) =>
          /\ call.out = Return(<<[error |-> Text("No country codes provided")]>>)
          /\ call.sent = <<>>
          /\ call.calls = <<>>
    /\ cmp.pc # "idle" => cmp.country_codes # <<>>

(* C3 witness: the empty list with year 0 and the second indicator. *)
CompareEmptyRejectedWitness ==
    /\ IsCompare
    /\ call.country_codes = <<>>
    /\ call.year = 0
    /\ call.indicator = "SP.POP.TOTL"
    /\ Len(call.out.value) = 1

(* The records of a 200 response with a JSON body: none when the envelope  *)
(* has no second element or it is null.                                    *)
RecordsOf(up) ==
    IF Len(up.body.items) >= 2 /\ up.body.items[2].t = "array"
    THEN up.body.items[2].items
    ELSE <<>>

IsJsonResponse(up) == up.kind = "response" /\ up.status_code = 200 /\ up.body.t = "array"

DateIs(record, year) == "date" \in DOMAIN record /\ record.date = ToString(year)

(* The message templates that hold the words "No data". *)
NoDataTemplates == {"No data available for {} / {} in {}", "No data found for {} / {} in {}"}

(* C4: when the upstream's response holds no record whose date is the      *)
(* year asked for (no records element, null, empty, or records of other    *)
(* years only), get_live_indicator returns an Error Payload whose message  *)
(* holds "No data", and raises nothing.                                    *)
LiveIndicatorNoData ==
    (IsLive /\ IsJsonResponse(call.up)
       /\ \A k \in DOMAIN RecordsOf(call.up) : ~DateIs(RecordsOf(call.up)[k], call.year)) =>
        /\ ~call.out.raised
        /\ IsErrorPayload(call.out.value)
        /\ call.out.value.error.fmt \in NoDataTemplates

(* C4 witness: records are present, all of another year. *)
LiveIndicatorNoDataWitness ==
    /\ IsLive
    /\ IsJsonResponse(call.up)
    /\ call.year = 2022
    /\ Len(RecordsOf(call.up)) = 2
    /\ \A k \in 1..2 : "date" \in DOMAIN RecordsOf(call.up)[k]
                       /\ RecordsOf(call.up)[k].date = "2021"
    /\ IsErrorPayload(call.out.value)

(* The failure kinds of the outbound HTTP call. *)
FailureKind(up) ==
    IF up.kind = "fault"
    THEN IF up.exc.cls \in {"ConnectTimeout", "ReadTimeout"} THEN "timeout" ELSE "network"
    ELSE IF up.status_code = 404 THEN "not_found"
    ELSE IF up.status_code # 200 THEN "api_error"
    ELSE IF up.body.t = "text" THEN "unexpected"
    ELSE "none"

FailureKinds == {"not_found", "api_error", "timeout", "network", "unexpected"}

(* The message template each failure kind is reported with. *)
FailureTemplate(op, kind) ==
    CASE kind = "not_found" ->
            IF op = "get_country_info" THEN "Country code '{}' not found"
            ELSE "Country '{}' or indicator '{}' not found"
      [] kind = "api_error" -> "API error ({}): {}"
      [] kind = "timeout" -> "Request timed out, please try again"
      [] kind = "network" -> "Network error: {}"
      [] kind = "unexpected" -> "Unexpected error: {}"

(* C5: in get_country_info and get_live_indicator each failure kind of the *)
(* HTTP call is reported with its own message, an API error with the       *)
(* status in it, and no two kinds with the same one.                       *)
FailureKindsDistinct ==
    /\ (call.op \in {"get_country_info", "get_live_indicator"}
          /\ FailureKind(call.up) \in FailureKinds) =>
          /\ ~call.out.raised
          /\ IsErrorPayload(call.out.value)
          /\ call.out.value.error.fmt = FailureTemplate(call.op, FailureKind(call.up))
          /\ FailureKind(call.up) = "api_error" =>
                call.out.value.error.args[1] = ToString(call.up.status_code)
    /\ \A op \in {"get_country_info", "get_live_indicator"} :
          \A k1, k2 \in FailureKinds :
              FailureTemplate(op, k1) = FailureTemplate(op, k2) => k1 = k2

(* C5 witness: a read timeout in get_live_indicator, reported as timed out. *)
FailureKindsDistinctWitness ==
    /\ IsLive
    /\ call.up.kind = "fault"
    /\ call.up.exc.cls = "ReadTimeout"
    /\ call.out.value.error.fmt = "Request timed out, please try again"

IsTool == call.op \in {"get_country_info", "get_live_indicator", "compare_countries"}
Escapes == call # Idle /\ call.out.raised

(* C6 as stated: the one exception that leaves a handler is the schema     *)
(* resource's on a missing data file; countries and indicators answer a    *)
(* loader failure with an Error Payload; the tools always return.          *)
EscapesOnlyOnMissingFile ==
    /\ Escapes => (call.op = "get_schema" /\ ~call.file.exists)
    /\ (call.op \in {"get_countries", "get_country_indicators"}
          /\ (~call.file.exists \/ ~call.file.readable)) =>
          (~call.out.raised /\ call.out.value.json = "object"
             /\ IsErrorPayload(call.out.value.body))
    /\ IsTool => ~call.out.raised

(* C6 as amended: the one handler an exception leaves is the schema        *)
(* resource, and it does so on every failure of the loader, a missing file *)
(* and a file that cannot be read alike.                                   *)
EscapesOnlyFromSchemaLoad ==
    /\ Escapes <=> (call.op = "get_schema"
                      /\ (~call.file.exists \/ ~call.file.readable))
    /\ (call.op \in {"get_countries", "get_country_indicators"}
          /\ (~call.file.exists \/ ~call.file.readable)) =>
          (~call.out.raised /\ call.out.value.json = "object"
             /\ IsErrorPayload(call.out.value.body))
    /\ IsTool => ~call.out.raised

(* C6 witness: the schema resource on a file that exists and cannot be read. *)
EscapesOnlyFromSchemaLoadWitness ==
    /\ call.op = "get_schema"
    /\ call.file.exists
    /\ ~call.file.readable
    /\ call.out.raised
    /\ call.out.exc.cls = "PermissionError"

(* A code in upper case, computed apart from the handler. *)
UpperCased(code) == [i \in DOMAIN code |-> UpperChar[code[i]]]

IsIndicators ==
    /\ call.op = "get_country_indicators"
    /\ call.file.exists
    /\ call.file.readable
    /\ call.file.columns = StoreColumns

StoreCodes == {call.file.rows[k].countryiso3code : k \in DOMAIN call.file.rows}

RowsAllOfRequestedCode ==
    /\ ~call.out.raised
    /\ call.out.value.json = "array"
    /\ call.out.value.body # <<>>
    /\ \A k \in DOMAIN call.out.value.body :
          call.out.value.body[k].countryiso3code = UpperCased(call.country_code)

(* C7 as stated: for every code of the store's code column, asked for in   *)
(* any letter case, the indicators resource returns a non-empty array of   *)
(* rows whose code is the request in upper case.                           *)
IndicatorsForEveryStoreCode ==
    (IsIndicators
       /\ \E c \in StoreCodes : UpperCased(c) = UpperCased(call.country_code)) =>
        RowsAllOfRequestedCode

(* C7 as amended: the same, for every code the store holds in upper case.  *)
IndicatorsForUpperCaseStoreCode ==
    (IsIndicators
       /\ \E c \in StoreCodes : c = UpperCased(c) /\ c = UpperCased(call.country_code)) =>
        RowsAllOfRequestedCode

(* C7 witness: a store holding US and us, asked for Us: the US rows only.  *)
IndicatorsForUpperCaseStoreCodeWitness ==
    /\ IsIndicators
    /\ call.country_code = <<"U", "s">>
    /\ StoreCodes = {<<"U", "S">>, <<"u", "s">>}
    /\ ~call.out.raised
    /\ call.out.value.json = "array"
    /\ Len(call.out.value.body) = 1

(* C8: two reads of the schema resource, and two reads of the countries    *)
(* resource, of the same file return the same JSON, entry for entry and    *)
(* in the same order.                                                      *)
ResourcesIdempotent ==
    [][(/\ call.op \in {"get_schema", "get_countries"}
        /\ call'.op = call.op
        /\ call'.file = call.file
        /\ ~call.out.raised
        /\ ~call'.out.raised) => call'.out.value = call.out.value]_vars

(* The index of the first record of the year asked for. *)
FirstOfYear(records, year) ==
    CHOOSE k \in DOMAIN records :
        /\ DateIs(records[k], year)
        /\ \A j \in 1..(k - 1) : ~DateIs(records[j], year)

(* C9: when the upstream's records hold one whose date is the year asked   *)
(* for, get_live_indicator returns an observation (no error key) built     *)
(* from the first such record, with country, indicator and year as the     *)
(* caller gave them; a null value is returned as null.                     *)
LiveIndicatorFirstMatch ==
    (IsLive /\ IsJsonResponse(call.up)
       /\ \E k \in DOMAIN RecordsOf(call.up) : DateIs(RecordsOf(call.up)[k], call.year)) =>
        LET record == RecordsOf(call.up)[FirstOfYear(RecordsOf(call.up), call.year)]
        IN  /\ ~call.out.raised
            /\ call.out.value =
                  [country |-> call.country_code,
                   country_name |-> IF "country" \in DOMAIN record
                                    THEN record.country.value ELSE "N/A",
                   indicator |-> call.indicator,
                   indicator_name |-> IF "indicator" \in DOMAIN record
                                      THEN record.indicator.value ELSE "N/A",
                   year |-> call.year,
                   value |-> IF "value" \in DOMAIN record THEN record.value ELSE Null]

(* C9 witness: two records of the year, the first with a null value and    *)
(* the second with a number: the observation's value is null.              *)
LiveIndicatorFirstMatchWitness ==
    /\ IsLive
    /\ IsJsonResponse(call.up)
    /\ call.year = 2022
    /\ Len(RecordsOf(call.up)) = 2
    /\ \A k \in 1..2 : DateIs(RecordsOf(call.up)[k], 2022)
                       /\ "value" \in DOMAIN RecordsOf(call.up)[k]
    /\ RecordsOf(call.up)[1].value = Null
    /\ RecordsOf(call.up)[2].value # Null
    /\ "error" \notin DOMAIN call.out.value
    /\ call.out.value.value = Null

(* The request for code i of a compare_countries call, from its arguments. *)
RequestFor(codes, indicator, year, i) ==
    [url |-> [fmt |-> "https://api.worldbank.org/v2/country/{}/indicator/{}",
              args |-> <<codes[i], indicator>>],
     params |-> IF year = 0 THEN [format |-> "json", per_page |-> 100]
                ELSE [format |-> "json", per_page |-> 100, date |-> ToString(year)]]

(* C10: for N codes compare_countries sends exactly N requests, the i-th   *)
(* for the i-th code; a request is sent only when every earlier one has    *)
(* been answered, and none is sent twice, whatever the answers.            *)
CompareSequentialRequests ==
    /\ cmp.pc # "idle" =>
          /\ cmp.open = (IF cmp.pc = "wait" THEN 1 ELSE 0)
          /\ Len(cmp.sent) = (IF cmp.pc = "wait" THEN cmp.i ELSE cmp.i - 1)
          /\ Len(cmp.results) = cmp.i - 1
          /\ \A k \in DOMAIN cmp.sent :
                cmp.sent[k] = RequestFor(cmp.country_codes, cmp.indicator, cmp.year, k)
    /\ (IsCompare /\ call.country_codes # <<>>) =>
          /\ Len(call.sent) = Len(call.country_codes)
          /\ \A k \in DOMAIN call.sent :
                call.sent[k] = RequestFor(call.country_codes, call.indicator, call.year, k)

(* C10 witness: two codes, the first request timing out and the second     *)
(* answered with an observation: two requests were sent.                   *)
CompareSequentialRequestsWitness ==
    /\ IsCompare
    /\ Len(call.country_codes) = 2
    /\ Len(call.sent) = 2
    /\ IsErrorPayload(call.out.value[1])
    /\ call.out.value[1].error.fmt = "Request timed out, please try again"
    /\ "error" \notin DOMAIN call.out.value[2]

====
